---- MODULE Spec2Model ----
(***************************************************************************)
(* A model of the multi-agent career simulator: the turn executor          *)
(* (BaseAgent), the orchestrator (MultiAgentCareerSimulator) and its two   *)
(* frontends (the command-line loop and the Streamlit page).               *)
(*                                                                         *)
(* A text is a sequence of tokens; a token is a record with one field:     *)
(*   [p |-> c]      a punctuation character of JSON                        *)
(*   [s |-> chars]  a string literal, chars is its sequence of characters  *)
(*   [n |-> k]      a number literal                                       *)
(*   [w |-> word]   a bare word (null, true, false, or a word of prose)    *)
(* A Python value is a record with one field:                              *)
(*   [str |-> chars], [int |-> k], [none |-> TRUE], [bool |-> b],          *)
(*   [list |-> items], [dict |-> <<[k |-> chars, v |-> value], ...>>].     *)
(***************************************************************************)
EXTENDS Integers, Sequences, FiniteSets, TLC

(***************************************************************************)
(* Bounds of the model.                                                    *)
(***************************************************************************)
MaxDecisions == 6
MaxStarts == 1
MaxSummaries == 1
MaxFailures == 2
MaxFaultDecisions == 2
MaxEvalDecisions == 2
MaxResets == 1

(***************************************************************************)
(* Texts and Python values.                                                *)
(***************************************************************************)
P(c) == [p |-> c]
S(chars) == [s |-> chars]
N(k) == [n |-> k]
W(word) == [w |-> word]

PyStr(chars) == [str |-> chars]
PyInt(k) == [int |-> k]
PyNone == [none |-> TRUE]
PyBool(b) == [bool |-> b]
PyList(items) == [list |-> items]
PyDict(pairs) == [dict |-> pairs]

IsStr(x) == "str" \in DOMAIN x
IsList(x) == "list" \in DOMAIN x
IsDict(x) == "dict" \in DOMAIN x

NoExc == "none"
Return(value) == [exc |-> NoExc, val |-> value]
Raise(kind) == [exc |-> kind, val |-> PyNone]

(***************************************************************************)
(* json.loads: a recursive-descent parser over the tokens of a text.  A    *)
(* parse step yields [ok, val, next]: whether a value was read, the value, *)
(* and the position of the first token after it.                           *)
(***************************************************************************)
ParseFail == [ok |-> FALSE, val |-> PyNone, next |-> 0]
ParseOk(v, i) == [ok |-> TRUE, val |-> v, next |-> i]

IsPunct(toks, i, c) == i <= Len(toks) /\ "p" \in DOMAIN toks[i] /\ toks[i].p = c

\* dict[key] = value: a key already present keeps its position, takes the new value
dict_set(pairs, key, value) ==
    IF \E j \in 1..Len(pairs) : pairs[j].k = key
    THEN [j \in 1..Len(pairs) |->
             IF pairs[j].k = key THEN [k |-> key, v |-> value] ELSE pairs[j]]
    ELSE Append(pairs, [k |-> key, v |-> value])

RECURSIVE ParseValue(_, _), ParseElements(_, _, _), ParseMembers(_, _, _)

ParseValue(toks, i) ==
    IF i > Len(toks) THEN ParseFail
    ELSE LET tok == toks[i] IN
         IF "s" \in DOMAIN tok THEN ParseOk(PyStr(tok.s), i + 1)
         ELSE IF "n" \in DOMAIN tok THEN ParseOk(PyInt(tok.n), i + 1)
         ELSE IF "w" \in DOMAIN tok THEN
              IF tok.w = "null" THEN ParseOk(PyNone, i + 1)
              ELSE IF tok.w = "true" THEN ParseOk(PyBool(TRUE), i + 1)
              ELSE IF tok.w = "false" THEN ParseOk(PyBool(FALSE), i + 1)
              ELSE ParseFail
         ELSE IF tok.p = "[" THEN
              IF IsPunct(toks, i + 1, "]") THEN ParseOk(PyList(<<>>), i + 2)
              ELSE ParseElements(toks, i + 1, <<>>)
         ELSE IF tok.p = "{" THEN
              IF IsPunct(toks, i + 1, "}") THEN ParseOk(PyDict(<<>>), i + 2)
              ELSE ParseMembers(toks, i + 1, <<>>)
         ELSE ParseFail

\* the elements of an array, from the first token of an element on
ParseElements(toks, i, acc) ==
    LET e == ParseValue(toks, i) IN
    IF ~e.ok THEN ParseFail
    ELSE IF IsPunct(toks, e.next, "]") THEN ParseOk(PyList(Append(acc, e.val)), e.next + 1)
    ELSE IF IsPunct(toks, e.next, ",") THEN ParseElements(toks, e.next + 1, Append(acc, e.val))
    ELSE ParseFail

\* the members of an object, from the first token of a key on
ParseMembers(toks, i, acc) ==
    IF ~(i <= Len(toks) /\ "s" \in DOMAIN toks[i] /\ IsPunct(toks, i + 1, ":"))
    THEN ParseFail
    ELSE LET e == ParseValue(toks, i + 2) IN
         IF ~e.ok THEN ParseFail
         ELSE IF IsPunct(toks, e.next, "}")
              THEN ParseOk(PyDict(dict_set(acc, toks[i].s, e.val)), e.next + 1)
         ELSE IF IsPunct(toks, e.next, ",")
              THEN ParseMembers(toks, e.next + 1, dict_set(acc, toks[i].s, e.val))
         ELSE ParseFail

\* json.loads that accepts a value followed by further text
json_loads_lenient(text) ==
    LET r == ParseValue(text, 1) IN
    IF r.ok THEN Return(r.val) ELSE Raise("JSONDecodeError")

\* json.loads(text): one value and nothing after it, else JSONDecodeError
json_loads(text) ==
    LET r == ParseValue(text, 1) IN
    IF r.ok /\ r.next = Len(text) + 1 THEN Return(r.val) ELSE Raise("JSONDecodeError")

(***************************************************************************)
(* The Python operations the orchestrator applies to the parsed answer.    *)
(***************************************************************************)
\* x.get(key, default): only a dict has the method
dict_get(x, key, default) ==
    IF ~IsDict(x) THEN Raise("AttributeError")
    ELSE IF \E j \in 1..Len(x.dict) : x.dict[j].k = key
         THEN Return(x.dict[CHOOSE j \in 1..Len(x.dict) : x.dict[j].k = key].v)
         ELSE Return(default)

\* iter(x): a list yields its items, a str its characters, a dict its keys
py_iter(x) ==
    IF IsList(x) THEN Return(x.list)
    ELSE IF IsStr(x) THEN Return([j \in 1..Len(x.str) |-> PyStr(<<x.str[j]>>)])
    ELSE IF IsDict(x) THEN Return([j \in 1..Len(x.dict) |-> PyStr(x.dict[j].k)])
    ELSE Raise("TypeError")

\* lst.extend(x)
list_extend(lst, x) ==
    LET it == py_iter(x) IN
    IF it.exc # NoExc THEN Raise(it.exc) ELSE Return(lst \o it.val)

\* hash(x) is defined for str, int, None and bool, not for list and dict
Hashable(x) == ~IsList(x) /\ ~IsDict(x)

\* set(items)
py_set(items) ==
    IF \E j \in 1..Len(items) : ~Hashable(items[j]) THEN Raise("TypeError")
    ELSE Return({items[j] : j \in 1..Len(items)})

\* list(a_set): the elements once each, in an order the program does not fix
ListsOfSet(set) ==
    {l \in [1..Cardinality(set) -> set] : {l[j] : j \in 1..Cardinality(set)} = set}

(***************************************************************************)
(* State.                                                                  *)
(*   career_knowledge, simulation_state, agent_log: the orchestrator's     *)
(*     fields of the same names                                            *)
(*   requests: the roles whose chat-completion request the client has sent *)
(*   faults: how many completions the endpoint has failed                  *)
(*   clock: the wall clock read by datetime.now()                          *)
(*   last: the most recent orchestrator call: operation, argument,         *)
(*     exception raised (NoExc if none) and value returned                 *)
(*   calls: how many calls of each operation were made and how they ended  *)
(*   frontend: who drives the orchestrator ("api", "cli" or "web")         *)
(*   pc: the position of the command-line main                             *)
(*   session_state: st.session_state of the Streamlit page                 *)
(*   resets: how often the page's Reset Simulation button was used         *)
(***************************************************************************)
VARIABLES career_knowledge, simulation_state, agent_log, requests, faults, clock,
          last, calls, frontend, pc, session_state, resets

orch == <<career_knowledge, simulation_state, agent_log>>
vars == <<career_knowledge, simulation_state, agent_log, requests, faults, clock,
          last, calls, frontend, pc, session_state, resets>>
front == <<frontend, pc, session_state, resets>>

EmptyDict == [k \in {} |-> ""]

Roles == {"Research", "Scenario Designer", "Evaluator", "Narrator"}

(***************************************************************************)
(* BaseAgent: the turn executor.  The environment of a call is the record  *)
(* o of the orchestrator's fields, the client's sent requests and the      *)
(* clock; a call yields [o, exc, val].                                     *)
(***************************************************************************)
Obj == [career_knowledge |-> career_knowledge,
        simulation_state |-> simulation_state,
        agent_log |-> agent_log,
        requests |-> requests,
        faults |-> faults,
        clock |-> clock]

Done(o, value) == [o |-> o, exc |-> NoExc, val |-> value]
Abort(o, kind) == [o |-> o, exc |-> kind, val |-> PyNone]

RECURSIVE Accumulate(_, _)
\* the for loop of _call_model: the non-empty deltas of one channel, in arrival order
Accumulate(chunks, channel) ==
    IF chunks = <<>> THEN <<>>
    ELSE chunks[1][channel] \o Accumulate(Tail(chunks), channel)

\* a _call_model that sends the request again when the first attempt fails
_call_model_retry(o, role, stream) ==
    LET sent == [o EXCEPT !.requests = Append(@, role), !.clock = @ + 1] IN
    IF stream.fails
    THEN Abort([sent EXCEPT !.requests = Append(@, role), !.faults = @ + 1], "APIError")
    ELSE Done(sent, [reasoning |-> Accumulate(stream.chunks, "reasoning_content"),
                     content |-> Accumulate(stream.chunks, "content")])

\* one streamed chat completion: the request is sent once; a transport or API
\* error ends the call, otherwise the two channels are concatenated
_call_model(o, role, stream) ==
    LET sent == [o EXCEPT !.requests = Append(@, role), !.clock = @ + 1] IN
    IF stream.fails THEN Abort([sent EXCEPT !.faults = @ + 1], "APIError")
    ELSE Done(sent, [reasoning |-> Accumulate(stream.chunks, "reasoning_content"),
                     content |-> Accumulate(stream.chunks, "content")])

think_and_act(o, role, stream) ==
    LET response == _call_model(o, role, stream) IN
    IF response.exc # NoExc THEN Abort(response.o, response.exc)
    ELSE Done(response.o, [agent |-> role,
                           reasoning |-> response.val.reasoning,
                           action |-> response.val.content,
                           timestamp |-> response.o.clock])

(***************************************************************************)
(* MultiAgentCareerSimulator: the orchestrator.                            *)
(***************************************************************************)
times == <<"9:00 AM", "10:30 AM", "12:00 PM", "2:00 PM", "4:00 PM", "5:30 PM">>

Min(a, b) == IF a < b THEN a ELSE b

\* an __init__ that presets the career
NewKnowledge_preset == [career |-> <<>>]

\* __init__
NewKnowledge == EmptyDict
NewState == [time |-> "9:00 AM",
             scenarios_completed |-> 0,
             skills_demonstrated |-> <<>>,
             current_scenario |-> PyNone]
NewLog == <<>>

\* an _advance_time that clamps one label early
_advance_time_early(state) ==
    LET idx == Min(state.scenarios_completed, Len(times) - 2) IN times[idx + 1]

_advance_time(state) ==
    LET idx == Min(state.scenarios_completed, Len(times) - 1) IN times[idx + 1]

\* a start_simulation that does not log the Research turn
start_simulation_unlogged(o, career, s_research, s_scenario, s_narrator) ==
    LET research_result == think_and_act(o, "Research", s_research) IN
    IF research_result.exc # NoExc THEN Abort(research_result.o, research_result.exc)
    ELSE
    LET o1 == [research_result.o EXCEPT
                  !.career_knowledge = [career |-> career,
                                         researched |-> TRUE,
                                         typical_challenges |-> <<"Common challenges for ", career>>,
                                         tools |-> <<"Tools used in ", career>>]]
        scenario_result == think_and_act(o1, "Scenario Designer", s_scenario)
    IN
    IF scenario_result.exc # NoExc THEN Abort(scenario_result.o, scenario_result.exc)
    ELSE
    LET o2 == [scenario_result.o EXCEPT !.agent_log = Append(@, scenario_result.val)]
        narrative_result == think_and_act(o2, "Narrator", s_narrator)
    IN
    IF narrative_result.exc # NoExc THEN Abort(narrative_result.o, narrative_result.exc)
    ELSE
    LET o3 == [narrative_result.o EXCEPT
                  !.agent_log = Append(@, narrative_result.val),
                  !.simulation_state.current_scenario = scenario_result.val]
    IN Done(o3, narrative_result.val.action)

start_simulation(o, career, s_research, s_scenario, s_narrator) ==
    LET research_result == think_and_act(o, "Research", s_research) IN
    IF research_result.exc # NoExc THEN Abort(research_result.o, research_result.exc)
    ELSE
    LET o1 == [research_result.o EXCEPT
                  !.agent_log = Append(@, research_result.val),
                  !.career_knowledge = [career |-> career,
                                         researched |-> TRUE,
                                         typical_challenges |-> <<"Common challenges for ", career>>,
                                         tools |-> <<"Tools used in ", career>>]]
        scenario_result == think_and_act(o1, "Scenario Designer", s_scenario)
    IN
    IF scenario_result.exc # NoExc THEN Abort(scenario_result.o, scenario_result.exc)
    ELSE
    LET o2 == [scenario_result.o EXCEPT !.agent_log = Append(@, scenario_result.val)]
        narrative_result == think_and_act(o2, "Narrator", s_narrator)
    IN
    IF narrative_result.exc # NoExc THEN Abort(narrative_result.o, narrative_result.exc)
    ELSE
    LET o3 == [narrative_result.o EXCEPT
                  !.agent_log = Append(@, narrative_result.val),
                  !.simulation_state.current_scenario = scenario_result.val]
    IN Done(o3, narrative_result.val.action)

skills_used_key == <<"s", "k", "i", "l", "l", "s", "_", "u", "s", "e", "d">>

\* the try block of process_user_decision: the new skills_demonstrated
extract_skills(skills, action) ==
    LET eval_data == json_loads(action) IN
    IF eval_data.exc # NoExc THEN skills
    ELSE LET skills_used == dict_get(eval_data.val, skills_used_key, PyList(<<>>)) IN
         IF skills_used.exc # NoExc THEN skills
         ELSE LET extended == list_extend(skills, skills_used.val) IN
              IF extended.exc # NoExc THEN skills ELSE extended.val

process_user_decision(o, user_choice, s_evaluator, s_scenario, s_narrator) ==
    IF "career" \notin DOMAIN o.career_knowledge THEN Abort(o, "KeyError")
    ELSE
    LET eval_result == think_and_act(o, "Evaluator", s_evaluator) IN
    IF eval_result.exc # NoExc THEN Abort(eval_result.o, eval_result.exc)
    ELSE
    LET o1 == [eval_result.o EXCEPT
                  !.agent_log = Append(@, eval_result.val),
                  !.simulation_state.skills_demonstrated =
                      extract_skills(@, eval_result.val.action)]
        o2 == [o1 EXCEPT !.simulation_state.scenarios_completed = @ + 1]
        o3 == [o2 EXCEPT !.simulation_state.time = _advance_time(o2.simulation_state)]
        next_scenario == think_and_act(o3, "Scenario Designer", s_scenario)
    IN
    IF next_scenario.exc # NoExc THEN Abort(next_scenario.o, next_scenario.exc)
    ELSE
    LET o4 == [next_scenario.o EXCEPT !.agent_log = Append(@, next_scenario.val)]
        narrative == think_and_act(o4, "Narrator", s_narrator)
    IN
    IF narrative.exc # NoExc THEN Abort(narrative.o, narrative.exc)
    ELSE
    LET o5 == [narrative.o EXCEPT
                  !.agent_log = Append(@, narrative.val),
                  !.simulation_state.current_scenario = next_scenario.val]
    IN Done(o5, narrative.val.action)

\* generate_summary: the set of its possible outcomes, one per order list(set(...))
\* may give to the skills
generate_summary(o, s_evaluator, s_narrator) ==
    LET eval_summary == think_and_act(o, "Evaluator", s_evaluator) IN
    IF eval_summary.exc # NoExc THEN {Abort(eval_summary.o, eval_summary.exc)}
    ELSE
    LET narrative_summary == think_and_act(eval_summary.o, "Narrator", s_narrator) IN
    IF narrative_summary.exc # NoExc THEN {Abort(narrative_summary.o, narrative_summary.exc)}
    ELSE
    LET o2 == narrative_summary.o
        skill_set == py_set(o2.simulation_state.skills_demonstrated)
    IN
    IF "career" \notin DOMAIN o2.career_knowledge THEN {Abort(o2, "KeyError")}
    ELSE IF skill_set.exc # NoExc THEN {Abort(o2, skill_set.exc)}
    ELSE {Done(o2, [career |-> o2.career_knowledge.career,
                    scenarios_completed |-> o2.simulation_state.scenarios_completed,
                    skills |-> skills,
                    summary |-> narrative_summary.val.action,
                    agent_interactions |-> Len(o2.agent_log)])
            : skills \in ListsOfSet(skill_set.val)}

get_agent_log == agent_log

(***************************************************************************)
(* The model endpoint: what a streamed completion can deliver.             *)
(***************************************************************************)
Failed == [fails |-> TRUE, chunks |-> <<>>]

\* a completed stream: the reasoning in one chunk, then the answer token by token
Streamed(reasoning, content) ==
    [fails |-> FALSE,
     chunks |-> <<[reasoning_content |-> reasoning, content |-> <<>>]>>
                \o [j \in 1..Len(content) |->
                       [reasoning_content |-> <<>>, content |-> <<content[j]>>]]]

Thinking == <<W("think")>>

ResearchText == <<P("{"), S(<<"n", "e", "e", "d", "s">>), P(":"), W("false"), P("}")>>
ScenarioText == <<P("{"), S(<<"s", "c", "e", "n", "a", "r", "i", "o">>), P(":"), S(<<"r", "u", "s", "h">>), P("}")>>
NarratorText == <<W("The"), W("day"), W("begins")>>
ProseText == <<W("Great"), W("choice")>>

SkillsObject(value) == <<P("{"), S(skills_used_key), P(":")>> \o value \o <<P("}")>>

EvalList == SkillsObject(<<P("["), S(<<"a">>), P(","), S(<<"b">>), P(","), S(<<"a">>), P("]")>>)
EvalString == SkillsObject(<<S(<<"a", "b">>)>>)
EvalObject == SkillsObject(<<P("{"), S(<<"b">>), P(":"), N(1), P("}")>>)
EvalNumber == SkillsObject(<<N(5)>>)
EvalNull == SkillsObject(<<W("null")>>)
EvalNested == SkillsObject(<<P("["), P("["), S(<<"a">>), P("]"), P("]")>>)
EvalNoKey == <<P("{"), S(<<"c", "o", "n", "s">>), P(":"), S(<<"o", "k">>), P("}")>>
EvalArray == <<P("["), S(<<"a">>), P("]")>>
EvalTruncated == <<P("{"), S(skills_used_key), P(":"), P("["), S(<<"a">>)>>
EvalTrailing == EvalList \o <<W("Hope"), W("this"), W("helps")>>

Answers(texts) == {Streamed(Thinking, t) : t \in texts}

ResearchStreams == Answers({ResearchText})
ScenarioStreams == Answers({ScenarioText})
NarratorStreams == Answers({NarratorText})
EvaluatorStreams == Answers({ProseText})
RichEvaluatorStreams ==
    Answers({ProseText, EvalTruncated, EvalTrailing, EvalArray, EvalNoKey, EvalList, EvalString,
             EvalObject, EvalNumber, EvalNull, EvalNested})

Faulty(streams) == streams \cup {Failed}

Careers == {<<"C", "h", "e", "f">>}
Choices == {<<>>, <<"g", "o">>}

(***************************************************************************)
(* Calls of the orchestrator's operations.                                 *)
(***************************************************************************)
Ops == {"start_simulation", "process_user_decision", "generate_summary"}

NoCall == [op |-> "none", arg |-> <<>>, exc |-> NoExc, ret |-> PyNone]
NoCalls == [made |-> [op \in Ops |-> 0], returned |-> [op \in Ops |-> 0]]

\* the outcome r of a call of op replaces the state; made counts the calls before it
Install(op, arg, r, made) ==
    /\ career_knowledge' = r.o.career_knowledge
    /\ simulation_state' = r.o.simulation_state
    /\ agent_log' = r.o.agent_log
    /\ requests' = r.o.requests
    /\ faults' = r.o.faults
    /\ clock' = r.o.clock
    /\ last' = [op |-> op, arg |-> arg, exc |-> r.exc, ret |-> r.val]
    /\ calls' = [made |-> [made.made EXCEPT ![op] = @ + 1],
                 returned |-> [made.returned EXCEPT ![op] = IF r.exc = NoExc THEN @ + 1 ELSE @]]

Apply(op, arg, r) == Install(op, arg, r, calls)

StartSimulation(career, s1, s2, s3) ==
    Apply("start_simulation", career, start_simulation(Obj, career, s1, s2, s3))

ProcessUserDecision(user_choice, s1, s2, s3) ==
    Apply("process_user_decision", user_choice,
          process_user_decision(Obj, user_choice, s1, s2, s3))

GenerateSummary(s1, s2) ==
    \E r \in generate_summary(Obj, s1, s2) : Apply("generate_summary", <<>>, r)

(***************************************************************************)
(* Spec: a caller of the orchestrator's interface; every model call is     *)
(* answered, the evaluator answers in prose.                               *)
(***************************************************************************)
Init ==
    /\ career_knowledge = NewKnowledge
    /\ simulation_state = NewState
    /\ agent_log = NewLog
    /\ requests = <<>>
    /\ faults = 0
    /\ clock = 0
    /\ last = NoCall
    /\ calls = NoCalls
    /\ frontend = "api"
    /\ pc = "none"
    /\ session_state = [simulator |-> FALSE, started |-> FALSE, messages |-> <<>>]
    /\ resets = 0

CallStart ==
    /\ calls.made["start_simulation"] < MaxStarts
    /\ \E career \in Careers, s1 \in ResearchStreams, s2 \in ScenarioStreams,
          s3 \in NarratorStreams : StartSimulation(career, s1, s2, s3)
    /\ UNCHANGED front

CallDecision ==
    /\ calls.made["process_user_decision"] < MaxDecisions
    /\ \E user_choice \in Choices, s1 \in EvaluatorStreams, s2 \in ScenarioStreams,
          s3 \in NarratorStreams : ProcessUserDecision(user_choice, s1, s2, s3)
    /\ UNCHANGED front

CallSummary ==
    /\ calls.made["generate_summary"] < MaxSummaries
    /\ \E s1 \in EvaluatorStreams, s2 \in NarratorStreams : GenerateSummary(s1, s2)
    /\ UNCHANGED front

Next == CallStart \/ CallDecision \/ CallSummary

Spec == Init /\ [][Next]_vars

(***************************************************************************)
(* SpecFault: the same caller; a model call may fail with a transport or   *)
(* API error, at most MaxFailures times.                                   *)
(***************************************************************************)
\* the endpoint may fail in a call only while it has failures left
Admitted(streams) == (\E s \in streams : s.fails) => faults < MaxFailures

FaultStart ==
    /\ calls.made["start_simulation"] < MaxStarts
    /\ \E career \in Careers, s1 \in Faulty(ResearchStreams),
          s2 \in Faulty(ScenarioStreams), s3 \in Faulty(NarratorStreams) :
          Admitted({s1, s2, s3}) /\ StartSimulation(career, s1, s2, s3)
    /\ UNCHANGED front

FaultDecision ==
    /\ calls.made["process_user_decision"] < MaxFaultDecisions
    /\ \E user_choice \in Choices, s1 \in Faulty(EvaluatorStreams),
          s2 \in Faulty(ScenarioStreams), s3 \in Faulty(NarratorStreams) :
          Admitted({s1, s2, s3}) /\ ProcessUserDecision(user_choice, s1, s2, s3)
    /\ UNCHANGED front

FaultSummary ==
    /\ calls.made["generate_summary"] < MaxSummaries
    /\ \E s1 \in Faulty(EvaluatorStreams), s2 \in Faulty(NarratorStreams) :
          Admitted({s1, s2}) /\ GenerateSummary(s1, s2)
    /\ UNCHANGED front

NextFault == FaultStart \/ FaultDecision \/ FaultSummary

SpecFault == Init /\ [][NextFault]_vars

(***************************************************************************)
(* SpecEval: the same caller; every model call is answered, the evaluator  *)
(* with every shape of text the skill extraction distinguishes.            *)
(***************************************************************************)
EvalStart ==
    /\ calls.made["start_simulation"] < MaxStarts
    /\ \E career \in Careers, s1 \in ResearchStreams, s2 \in ScenarioStreams,
          s3 \in NarratorStreams : StartSimulation(career, s1, s2, s3)
    /\ UNCHANGED front

EvalDecision ==
    /\ calls.made["process_user_decision"] < MaxEvalDecisions
    /\ \E user_choice \in Choices, s1 \in RichEvaluatorStreams,
          s2 \in ScenarioStreams, s3 \in NarratorStreams :
          ProcessUserDecision(user_choice, s1, s2, s3)
    /\ UNCHANGED front

EvalSummary ==
    /\ calls.made["generate_summary"] < MaxSummaries
    /\ \E s1 \in EvaluatorStreams, s2 \in NarratorStreams : GenerateSummary(s1, s2)
    /\ UNCHANGED front

NextEval == EvalStart \/ EvalDecision \/ EvalSummary

SpecEval == Init /\ [][NextEval]_vars

(***************************************************************************)
(* The frontends.  SpecFrontend: one session of the command-line main or   *)
(* of the Streamlit page, over an endpoint that may fail.                  *)
(***************************************************************************)
RECURSIVE lstrip(_)
lstrip(chars) ==
    IF chars # <<>> /\ chars[1] = " " THEN lstrip(Tail(chars)) ELSE chars

RECURSIVE rstrip(_)
rstrip(chars) ==
    IF chars # <<>> /\ chars[Len(chars)] = " "
    THEN rstrip(SubSeq(chars, 1, Len(chars) - 1)) ELSE chars

\* str.strip()
strip(chars) == rstrip(lstrip(chars))

lower_char(c) ==
    CASE c = "Q" -> "q" [] c = "U" -> "u" [] c = "I" -> "i" [] c = "T" -> "t"
      [] c = "E" -> "e" [] c = "N" -> "n" [] c = "D" -> "d" [] c = "X" -> "x"
      [] c = "G" -> "g" [] c = "O" -> "o" [] OTHER -> c

\* str.lower()
lower(chars) == [j \in 1..Len(chars) |-> lower_char(chars[j])]

QuitWords == {<<"q", "u", "i", "t">>, <<"e", "x", "i", "t">>, <<"e", "n", "d">>}

\* what the user may type at the command-line prompt
TypedInputs == {<<>>, <<" ">>, <<" ", "g", "o", " ">>, <<"Q", "u", "i", "t">>,
                <<"e", "n", "d", " ">>}
\* what the page's chat input, career field and key field may hold
ChatInputs == {<<>>, <<"g", "o">>}
CareerInputs == {<<>>} \cup Careers
KeyInputs == {<<>>, <<"k", "e", "y">>}

\* a while condition that lets a sixth scenario through
cli_loop_condition_late(state) == state.scenarios_completed <= 5

\* the while condition of the command-line main
cli_loop_condition(state) == state.scenarios_completed < 5

\* the page's condition for offering the chat input
web_chat_offered(state) == state.scenarios_completed < 5

InitFrontend ==
    /\ career_knowledge = NewKnowledge
    /\ simulation_state = NewState
    /\ agent_log = NewLog
    /\ requests = <<>>
    /\ faults = 0
    /\ clock = 0
    /\ last = NoCall
    /\ calls = NoCalls
    /\ frontend \in {"cli", "web"}
    /\ pc = IF frontend = "cli" THEN "begin" ELSE "none"
    /\ session_state = [simulator |-> FALSE, started |-> FALSE, messages |-> <<>>]
    /\ resets = 0

\* main: the career prompt and the startup sequence
CliStart ==
    /\ frontend = "cli" /\ pc = "begin"
    /\ \E career \in CareerInputs, s1 \in Faulty(ResearchStreams),
          s2 \in Faulty(ScenarioStreams), s3 \in Faulty(NarratorStreams) :
          Admitted({s1, s2, s3}) /\ StartSimulation(career, s1, s2, s3)
    /\ pc' = IF last'.exc = NoExc THEN "loop" ELSE "crashed"
    /\ UNCHANGED <<frontend, session_state, resets>>

\* main: one iteration of the interactive loop
CliIteration ==
    /\ frontend = "cli" /\ pc = "loop"
    /\ cli_loop_condition(simulation_state)
    /\ \E typed \in TypedInputs :
          LET user_input == strip(typed) IN
          IF lower(user_input) \in QuitWords
          THEN pc' = "summary"
               /\ UNCHANGED <<orch, requests, faults, clock, last, calls>>
          ELSE IF user_input = <<>>
          THEN UNCHANGED <<orch, requests, faults, clock, last, calls, pc>>
          ELSE /\ \E s1 \in Faulty(EvaluatorStreams), s2 \in Faulty(ScenarioStreams),
                     s3 \in Faulty(NarratorStreams) :
                     Admitted({s1, s2, s3}) /\ ProcessUserDecision(user_input, s1, s2, s3)
               /\ pc' = IF last'.exc = NoExc THEN "loop" ELSE "crashed"
    /\ UNCHANGED <<frontend, session_state, resets>>

\* main: the summary after the loop has ended
CliSummary ==
    /\ frontend = "cli"
    /\ pc = "summary" \/ (pc = "loop" /\ ~cli_loop_condition(simulation_state))
    /\ \E s1 \in Faulty(EvaluatorStreams), s2 \in Faulty(NarratorStreams) :
          Admitted({s1, s2}) /\ GenerateSummary(s1, s2)
    /\ pc' = IF last'.exc = NoExc THEN "done" ELSE "crashed"
    /\ UNCHANGED <<frontend, session_state, resets>>

\* the page, run after a click on Reset Simulation
WebReset ==
    /\ frontend = "web"
    /\ resets < MaxResets
    /\ resets' = resets + 1
    /\ session_state' = [simulator |-> FALSE, started |-> FALSE, messages |-> <<>>]
    /\ UNCHANGED <<orch, requests, faults, clock, last, calls, frontend, pc>>

\* the page, run after a click on Start Simulation: a new orchestrator with a
\* new client is built and started
WebStart ==
    /\ frontend = "web"
    /\ ~session_state.started
    /\ \E career \in CareerInputs, api_key \in KeyInputs :
          IF career # <<>> /\ api_key # <<>>
          THEN \E s1 \in Faulty(ResearchStreams), s2 \in Faulty(ScenarioStreams),
                  s3 \in Faulty(NarratorStreams) :
                  LET fresh == [career_knowledge |-> NewKnowledge,
                                simulation_state |-> NewState,
                                agent_log |-> NewLog,
                                requests |-> <<>>,
                                faults |-> faults,
                                clock |-> clock]
                      r == start_simulation(fresh, career, s1, s2, s3)
                  IN /\ Admitted({s1, s2, s3})
                     /\ Install("start_simulation", career, r, NoCalls)
                     /\ session_state' =
                           IF r.exc = NoExc
                           THEN [simulator |-> TRUE, started |-> TRUE,
                                 messages |-> Append(session_state.messages,
                                                     [role |-> "assistant", content |-> r.val])]
                           ELSE [session_state EXCEPT !.simulator = TRUE]
          ELSE UNCHANGED <<orch, requests, faults, clock, last, calls, session_state>>
    /\ UNCHANGED <<frontend, pc, resets>>

\* the page, run after the chat input was submitted
WebChat ==
    /\ frontend = "web"
    /\ session_state.started /\ session_state.simulator
    /\ web_chat_offered(simulation_state)
    /\ \E user_input \in ChatInputs :
          IF user_input # <<>>
          THEN \E s1 \in Faulty(EvaluatorStreams), s2 \in Faulty(ScenarioStreams),
                  s3 \in Faulty(NarratorStreams) :
                  /\ Admitted({s1, s2, s3})
                  /\ ProcessUserDecision(user_input, s1, s2, s3)
                  /\ session_state' =
                        LET asked == Append(session_state.messages,
                                            [role |-> "user", content |-> user_input])
                        IN [session_state EXCEPT !.messages =
                               IF last'.exc = NoExc
                               THEN Append(asked, [role |-> "assistant", content |-> last'.ret])
                               ELSE asked]
          ELSE UNCHANGED <<orch, requests, faults, clock, last, calls, session_state>>
    /\ UNCHANGED <<frontend, pc, resets>>

\* the page, run after a click on Generate Summary
WebSummary ==
    /\ frontend = "web"
    /\ session_state.started /\ session_state.simulator
    /\ ~web_chat_offered(simulation_state)
    /\ calls.made["generate_summary"] < MaxSummaries
    /\ \E s1 \in Faulty(EvaluatorStreams), s2 \in Faulty(NarratorStreams) :
          Admitted({s1, s2}) /\ GenerateSummary(s1, s2)
    /\ UNCHANGED front

NextFrontend ==
    CliStart \/ CliIteration \/ CliSummary \/ WebReset \/ WebStart \/ WebChat \/ WebSummary

SpecFrontend == InitFrontend /\ [][NextFrontend]_vars

(***************************************************************************)
(* Properties.                                                             *)
(***************************************************************************)
START == "start_simulation"
DECIDE == "process_user_decision"
SUMMARY == "generate_summary"

\* this step is a call of op on the orchestrator
Called(op) == calls'.made[op] = calls.made[op] + 1 /\ last'.op = op

\* this step appends to the log exactly entries of the agents in names, in order
Appends(names) ==
    /\ Len(agent_log') = Len(agent_log) + Len(names)
    /\ SubSeq(agent_log', 1, Len(agent_log)) = agent_log
    /\ \A j \in 1..Len(names) : agent_log'[Len(agent_log) + j].agent = names[j]

LogNames == [j \in 1..Len(get_agent_log) |-> get_agent_log[j].agent]

\* start_simulation has run on this orchestrator, and every process_user_decision
\* call was made after it
StartedFirst == calls.returned[START] >= 1 /\ calls.made[DECIDE] = calls.returned[DECIDE]

\* C1: after start_simulation, N process_user_decision calls leave
\* scenarios_completed = N and time = times[min(N, 5)]; the counter therefore
\* grows by one per call and never decreases, and time stays at "5:30 PM" from
\* the fifth call on.
C1_CounterAndTime ==
    /\ StartedFirst =>
          /\ simulation_state.scenarios_completed = calls.made[DECIDE]
          /\ simulation_state.time = times[Min(calls.made[DECIDE], 5) + 1]
    /\ simulation_state.scenarios_completed = calls.returned[DECIDE]
    /\ calls.returned[DECIDE] > 5 => simulation_state.time = "5:30 PM"

C1_Witness ==
    /\ StartedFirst
    /\ last.op = DECIDE
    /\ calls.made[DECIDE] = 6
    /\ simulation_state.scenarios_completed = 6
    /\ simulation_state.time = "5:30 PM"

\* C2: a start_simulation that returns appends exactly Research, Scenario
\* Designer, Narrator to the log, a process_user_decision that returns appends
\* exactly Evaluator, Scenario Designer, Narrator, neither touches the earlier
\* entries; after one start_simulation followed by N process_user_decision
\* calls the log reads Research, Scenario Designer, Narrator and then N times
\* Evaluator, Scenario Designer, Narrator, 3 + 3*N entries in all.
C2_Pattern(n) ==
    [j \in 1..(3 + 3 * n) |->
        IF j = 1 THEN "Research"
        ELSE IF j % 3 = 1 THEN "Evaluator"
        ELSE IF j % 3 = 2 THEN "Scenario Designer"
        ELSE "Narrator"]

C2_LogOrder ==
    /\ [][/\ (Called(START) /\ last'.exc = NoExc)
                => Appends(<<"Research", "Scenario Designer", "Narrator">>)
          /\ (Called(DECIDE) /\ last'.exc = NoExc)
                => Appends(<<"Evaluator", "Scenario Designer", "Narrator">>)]_vars
    /\ []((StartedFirst /\ calls.made[START] = 1)
            => /\ LogNames = C2_Pattern(calls.made[DECIDE])
               /\ Len(get_agent_log) = 3 + 3 * calls.made[DECIDE])

C2_Witness ==
    /\ StartedFirst /\ calls.made[START] = 1
    /\ last.op = DECIDE
    /\ calls.made[DECIDE] = 3
    /\ Len(get_agent_log) = 12
    /\ simulation_state.time = "2:00 PM"

\* C3 (as claimed): every generate_summary call lengthens the log by exactly 2.
C3_SummaryLogsTwo ==
    [][Called(SUMMARY) => Len(agent_log') = Len(agent_log) + 2]_vars

\* C4 (as claimed): in every state current_scenario is empty if the log has no
\* Scenario Designer entry, and is the last Scenario Designer entry otherwise.
C4_Designs == {j \in 1..Len(agent_log) : agent_log[j].agent = "Scenario Designer"}

C4_CurrentScenario ==
    simulation_state.current_scenario =
        (IF C4_Designs = {} THEN PyNone
         ELSE agent_log[CHOOSE j \in C4_Designs : \A k \in C4_Designs : k <= j])

\* the Evaluator's answer of the process_user_decision call this step makes
\* (the call got that far when it added the entry to the log)
EvaluatorAnswered ==
    /\ Called(DECIDE)
    /\ Len(agent_log') > Len(agent_log)
    /\ agent_log'[Len(agent_log) + 1].agent = "Evaluator"
EvaluatorAnswer == agent_log'[Len(agent_log) + 1].action

\* C5: a process_user_decision call whose Evaluator answer is not valid JSON
\* leaves skills_demonstrated unchanged and raises nothing: it increments
\* scenarios_completed, runs the Scenario Designer and the Narrator turn and
\* returns the Narrator's answer.  The texts that are not valid JSON: prose, a
\* JSON object cut off before its end, a JSON object followed by prose.
C5_NotJSON == {ProseText, EvalTruncated, EvalTrailing}

C5_MalformedAnswer ==
    [][(EvaluatorAnswered /\ EvaluatorAnswer \in C5_NotJSON)
         => /\ simulation_state'.skills_demonstrated = simulation_state.skills_demonstrated
            /\ last'.exc = NoExc
            /\ simulation_state'.scenarios_completed = simulation_state.scenarios_completed + 1
            /\ requests' = requests \o <<"Evaluator", "Scenario Designer", "Narrator">>
            /\ agent_log'[Len(agent_log')].agent = "Narrator"
            /\ last'.ret = agent_log'[Len(agent_log')].action]_vars

C5_EvaluatorEntry == agent_log[Len(agent_log) - 2]

C5_Witness ==
    /\ last.op = DECIDE /\ last.exc = NoExc
    /\ Len(agent_log) >= 6
    /\ C5_EvaluatorEntry.agent = "Evaluator"
    /\ C5_EvaluatorEntry.action = EvalTrailing
    /\ simulation_state.skills_demonstrated = <<PyStr(<<"a">>), PyStr(<<"b">>), PyStr(<<"a">>)>>
    /\ simulation_state.scenarios_completed = 2
    /\ last.ret = NarratorText

\* C6 (as claimed): a process_user_decision call extends skills_demonstrated
\* only when the Evaluator's answer parses as JSON and holds a skills_used
\* list, then by that list's entries in order after the ones present; in every
\* other case (no JSON, not an object, no skills_used, skills_used not a list)
\* it leaves skills_demonstrated unchanged.
C6_SkillsList(text) ==
    LET parsed == json_loads(text) IN
    IF parsed.exc # NoExc \/ ~IsDict(parsed.val) THEN <<>>
    ELSE LET used == dict_get(parsed.val, skills_used_key, PyList(<<>>)).val IN
         IF IsList(used) THEN used.list ELSE <<>>

C6_OnlyLists ==
    [][EvaluatorAnswered
         => simulation_state'.skills_demonstrated =
               simulation_state.skills_demonstrated \o C6_SkillsList(EvaluatorAnswer)]_vars

\* C7 (as claimed): on a started orchestrator generate_summary returns, for
\* every content of skills_demonstrated, a skills list without repetition whose
\* set of entries is that of skills_demonstrated, which it leaves as it was.
C7_Entries(seq) == {seq[j] : j \in 1..Len(seq)}

C7_Deduplicated ==
    [][(Called(SUMMARY) /\ calls.returned[START] >= 1)
         => /\ last'.exc = NoExc
            /\ Cardinality(C7_Entries(last'.ret.skills)) = Len(last'.ret.skills)
            /\ C7_Entries(last'.ret.skills) = C7_Entries(simulation_state.skills_demonstrated)
            /\ simulation_state'.skills_demonstrated = simulation_state.skills_demonstrated]_vars

\* C8: when a model call fails inside an orchestrator operation, the request
\* is not sent again, the error reaches the caller, no later turn runs and the
\* log gets no entry for the failed turn.
C8_Turns(op) ==
    IF op = START THEN <<"Research", "Scenario Designer", "Narrator">>
    ELSE IF op = DECIDE THEN <<"Evaluator", "Scenario Designer", "Narrator">>
    ELSE <<"Evaluator", "Narrator">>

C8_FailedTurn ==
    [][faults' # faults
         => LET k == Len(requests') - Len(requests)
                turns == C8_Turns(last'.op)
            IN /\ faults' = faults + 1
               /\ last'.exc = "APIError"
               /\ k \in 1..Len(turns)
               /\ requests' = requests \o SubSeq(turns, 1, k)
               /\ IF last'.op = SUMMARY THEN agent_log' = agent_log
                  ELSE Appends(SubSeq(turns, 1, k - 1))]_vars

C8_Witness ==
    /\ last.op = DECIDE /\ last.exc = "APIError"
    /\ Len(requests) = 5 /\ requests[5] = "Scenario Designer"
    /\ LogNames = <<"Research", "Scenario Designer", "Narrator", "Evaluator">>

\* C9: process_user_decision on an orchestrator on which start_simulation has
\* never run raises KeyError before any model turn: no request is sent, and
\* the log and the simulation state stay as they were.
C9_BeforeStart ==
    [][(Called(DECIDE) /\ calls.made[START] = 0)
         => /\ last'.exc = "KeyError"
            /\ requests' = requests
            /\ agent_log' = agent_log
            /\ simulation_state' = simulation_state]_vars

C9_Witness ==
    /\ calls.made[START] = 0
    /\ last.op = DECIDE /\ last.exc = "KeyError"
    /\ requests = <<>> /\ agent_log = <<>> /\ simulation_state = NewState

\* C10: under either frontend process_user_decision is called only on an
\* orchestrator whose start_simulation has returned and only while
\* scenarios_completed < 5, so scenarios_completed stays within 0..5; the
\* command line never passes an empty input, and the page calls
\* generate_summary only once scenarios_completed >= 5.
C10_Frontends ==
    /\ [](simulation_state.scenarios_completed \in 0..5)
    /\ []((frontend = "cli" /\ last.op = DECIDE) => last.arg # <<>>)
    /\ [][/\ Called(DECIDE)
                => /\ calls.returned[START] >= 1
                   /\ simulation_state.scenarios_completed < 5
          /\ (frontend = "web" /\ Called(SUMMARY))
                => simulation_state.scenarios_completed >= 5]_vars

C10_Witness ==
    /\ frontend = "web"
    /\ last.op = SUMMARY /\ last.exc = NoExc
    /\ calls.made[DECIDE] >= 5
    /\ simulation_state.scenarios_completed = 5

====
